---------------------------- MODULE Spec2Model ----------------------------
(***************************************************************************)
(* Model of the Monad MCP server of src/src/index.ts: the apriori-mon-stake *)
(* calldata builder, the two block-walk aggregators                         *)
(* (account-transaction-history, chain-statistics), the tools that make a   *)
(* fixed sequence of requests, and calls of the aggregators in flight       *)
(* together.                                                                *)
(*                                                                          *)
(* Strings are sequences of one-character strings.  A bigint is a record    *)
(* [neg, mag] whose magnitude is a little-endian sequence of base-16 limbs  *)
(* without high zero limbs, so that 256-bit quantities keep their width.    *)
(***************************************************************************)
EXTENDS Integers, Sequences, FiniteSets, TLC

VARIABLES
    chain,          \* what the RPC endpoint answers: head and blocks
    stake,          \* the apriori-mon-stake call in progress
    submitted,      \* walletClient.sendTransaction invocations of that call
    hist,           \* the account-transaction-history call in progress
    stats,          \* the chain-statistics call in progress
    tool,           \* the call in progress of a tool without a walk
    pool,           \* the locals of the aggregator calls in flight together
    alone           \* the locals each of those calls has when it runs by itself

vars == <<chain, stake, submitted, hist, stats, tool, pool, alone>>

Absent == <<"undefined">>   \* an optional parameter that was not given
Null == <<"null">>          \* tx.to of a contract creation

-----------------------------------------------------------------------------
(* Strings *)

DecDigits == <<"0", "1", "2", "3", "4", "5", "6", "7", "8", "9">>
HexDigits == DecDigits \o <<"a", "b", "c", "d", "e", "f">>
UpperHex == <<"A", "B", "C", "D", "E", "F">>

Range(s) == {s[i] : i \in DOMAIN s}
Max(S) == CHOOSE x \in S : \A y \in S : y <= x
Min(S) == CHOOSE x \in S : \A y \in S : x <= y


\* value of a digit character in a base, -1 when it is no digit of that base
DigitVal(c, base) ==
    LET v == IF c \in Range(HexDigits)
             THEN (CHOOSE i \in 1..16 : HexDigits[i] = c) - 1
             ELSE IF c \in Range(UpperHex)
             THEN (CHOOSE i \in 1..6 : UpperHex[i] = c) + 9
             ELSE -1
    IN IF v < base THEN v ELSE -1

Repeat(c, n) == [i \in 1..n |-> c]

\* String.prototype.padStart(targetLength, c): a string already that long is
\* returned unchanged
padStart(s, n, c) == IF Len(s) >= n THEN s ELSE Repeat(c, n - Len(s)) \o s

\* String.prototype.padEnd
padEnd(s, n, c) == IF Len(s) >= n THEN s ELSE s \o Repeat(c, n - Len(s))

\* String.prototype.slice(k)
slice(s, k) == IF k >= Len(s) THEN <<>> ELSE SubSeq(s, k + 1, Len(s))

\* String.prototype.toLowerCase on the characters addresses are made of
toLowerCase(s) ==
    [i \in DOMAIN s |->
        IF s[i] \in Range(UpperHex)
        THEN HexDigits[(CHOOSE j \in 1..6 : UpperHex[j] = s[i]) + 10]
        ELSE IF s[i] = "X" THEN "x" ELSE s[i]]

\* the indices of s that hold another character than c
Others(s, c) == {i \in DOMAIN s : s[i] # c}

\* s without its leading, or trailing, run of the character c
DropLeading(s, c) ==
    IF Others(s, c) = {} THEN <<>> ELSE SubSeq(s, Min(Others(s, c)), Len(s))
DropTrailing(s, c) ==
    IF Others(s, c) = {} THEN <<>> ELSE SubSeq(s, 1, Max(Others(s, c)))

\* the concatenation of a sequence of strings
RECURSIVE FlattenFrom(_, _)
FlattenFrom(ss, k) == IF k > Len(ss) THEN <<>> ELSE ss[k] \o FlattenFrom(ss, k + 1)
Flatten(ss) == FlattenFrom(ss, 1)

-----------------------------------------------------------------------------
(* bigint *)

\* a magnitude is a little-endian sequence of limbs of five hexadecimal
\* digits each, without high zero limbs
LimbDigits == <<1, 2, 3, 4, 5>>
LimbBase == 16 * 16 * 16 * 16 * 16

Zero == [neg |-> FALSE, mag |-> <<>>]

\* limbs k..Len(mag) of mag * b + carry, for b up to 256 and carry below b.
\* (CHOOSE r \in {e(v) : v \in {d}} : TRUE is e(d) with d evaluated once.)
RECURSIVE MulAddFrom(_, _, _, _)
MulAddFrom(mag, k, b, carry) ==
    IF k > Len(mag)
    THEN IF carry = 0 THEN <<>> ELSE <<carry>>
    ELSE CHOOSE r \in {<<v % LimbBase>> \o MulAddFrom(mag, k + 1, b, v \div LimbBase) :
                          v \in {mag[k] * b + carry}} : TRUE

MulAdd(mag, b, carry) == MulAddFrom(mag, 1, b, carry)


\* the digits k..Len(s) of s, most significant first, accumulated onto acc in
\* the given base, two digits at a time
RECURSIVE ParseFrom(_, _, _, _)
ParseFrom(s, k, base, acc) ==
    IF k > Len(s) THEN acc
    ELSE IF k = Len(s) THEN MulAdd(acc, base, DigitVal(s[k], base))
    ELSE CHOOSE r \in {ParseFrom(s, k + 2, base, next) :
                          next \in {MulAdd(acc, base * base,
                                           DigitVal(s[k], base) * base
                                             + DigitVal(s[k + 1], base))}} : TRUE

\* the high zero limbs dropped
ParseDigits(s, base) == DropTrailing(ParseFrom(s, 1, base, <<>>), 0)

AllDigits(s, base) == \A i \in DOMAIN s : DigitVal(s[i], base) >= 0

MkBig(neg, mag) == [neg |-> neg /\ mag # <<>>, mag |-> mag]

\* the outcome of an evaluation that may throw
Throws(msg) == [throws |-> TRUE, message |-> msg]
Returns(v) == [throws |-> FALSE, val |-> v]

\* StringToBigInt of a string without surrounding white space: the empty
\* string is 0n, a decimal literal may carry a sign, a 0x/0o/0b literal may
\* not; anything else is a SyntaxError
BigIntOfTrimmed(s) ==
    LET prefixed == Len(s) >= 2 /\ s[1] = "0" /\ s[2] \in {"x", "X", "o", "O", "b", "B"}
        base == IF s[2] \in {"x", "X"} THEN 16 ELSE IF s[2] \in {"o", "O"} THEN 8 ELSE 2
        signed == s # <<>> /\ s[1] \in {"+", "-"}
        body == IF signed THEN Tail(s) ELSE s
    IN IF s = <<>> THEN Returns(Zero)
       ELSE IF prefixed
       THEN IF Len(s) > 2 /\ AllDigits(slice(s, 2), base)
            THEN CHOOSE r \in {Returns(MkBig(FALSE, ParseDigits(digits, base))) :
                                  digits \in {slice(s, 2)}} : TRUE
            ELSE Throws("SyntaxError: Cannot convert to a BigInt")
       ELSE IF body # <<>> /\ AllDigits(body, 10)
       THEN CHOOSE r \in {Returns(MkBig(s[1] = "-", ParseDigits(digits, 10))) :
                             digits \in {body}} : TRUE
       ELSE Throws("SyntaxError: Cannot convert to a BigInt")

\* BigInt(string): white space around the literal is trimmed
BigIntOf(str) ==
    CHOOSE r \in {BigIntOfTrimmed(s) : s \in {DropTrailing(DropLeading(str, " "), " ")}} : TRUE

Pow16(j) == CASE j = 0 -> 1 [] j = 1 -> 16 [] j = 2 -> 256 [] j = 3 -> 4096 [] j = 4 -> 65536

LimbHex(limb) ==
    [j \in 1..Len(LimbDigits) |-> HexDigits[((limb \div Pow16(Len(LimbDigits) - j)) % 16) + 1]]

\* the hexadecimal digits of a magnitude, most significant first
MagHex(mag) ==
    IF mag = <<>> THEN <<"0">>
    ELSE DropLeading(Flatten([i \in 1..Len(mag) |-> LimbHex(mag[Len(mag) + 1 - i])]), "0")

\* BigInt.prototype.toString(16): lower-case digits, most significant first,
\* "0" for zero, a leading "-" for a negative value
toString16(n) ==
    CHOOSE r \in {(IF n.neg THEN <<"-">> ELSE <<>>) \o digits : digits \in {MagHex(n.mag)}} : TRUE

-----------------------------------------------------------------------------
(* viem parseUnits(value, decimals), as called with decimals = 18 *)

\* s + 1 on a decimal string, keeping its width unless every digit is 9
DecInc(s) ==
    LET low == Others(s, "9")
        j == Max(low)
    IN IF low = {} THEN <<"1">> \o Repeat("0", Len(s))
       ELSE SubSeq(s, 1, j - 1) \o <<DecDigits[DigitVal(s[j], 10) + 2]>> \o Repeat("0", Len(s) - j)

DotsOf(s) == {i \in DOMAIN s : s[i] = "."}

\* /^(-?)([0-9]*)\.?([0-9]*)$/
IsDecimalNumber(s) ==
    LET body == IF s # <<>> /\ s[1] = "-" THEN Tail(s) ELSE s
    IN /\ Cardinality(DotsOf(body)) <= 1
       /\ \A i \in DOMAIN body : body[i] = "." \/ body[i] \in Range(DecDigits)

\* the fraction rounded off to the number of decimals, for a fraction that
\* is longer: <<carry into the integer, fraction>>
RoundOff(fraction, decimals) ==
    LET left == SubSeq(fraction, 1, decimals - 1)
        unit == DigitVal(fraction[decimals], 10)
        right == slice(fraction, decimals)
        rounded == IF DigitVal(right[1], 10) >= 5 THEN unit + 1 ELSE unit
        raised == IF rounded > 9 THEN padStart(DecInc(left) \o <<"0">>, Len(left) + 1, "0")
                  ELSE left \o <<DecDigits[rounded + 1]>>
        carry == Len(raised) > decimals
    IN <<carry, SubSeq(IF carry THEN Tail(raised) ELSE raised, 1, decimals)>>

parseUnits(value, decimals) ==
    LET dots == DotsOf(value)
        dot == IF dots = {} THEN 0 ELSE CHOOSE i \in dots : TRUE
        integer0 == IF dot = 0 THEN value ELSE SubSeq(value, 1, dot - 1)
        fraction0 == IF dot = 0 THEN <<"0">> ELSE slice(value, dot)
        negative == integer0 # <<>> /\ integer0[1] = "-"
        integer1 == IF negative THEN Tail(integer0) ELSE integer0
        \* replace(/(0+)$/, '')
        fraction1 == DropTrailing(fraction0, "0")
        over == Len(fraction1) > decimals
        off == RoundOff(fraction1, decimals)
        integer == IF over /\ off[1] THEN DecInc(integer1) ELSE integer1
        fraction == IF over THEN off[2] ELSE padEnd(fraction1, decimals, "0")
    IN IF ~IsDecimalNumber(value) THEN Throws("InvalidDecimalNumberError")
       ELSE BigIntOf((IF negative THEN <<"-">> ELSE <<>>) \o integer \o fraction)

-----------------------------------------------------------------------------
(* apriori-mon-stake *)

\* senderAccount.address: the address of the configured private key
senderAddress ==
    <<"0", "x", "c", "2", "3", "c", "1", "2", "8", "c", "6", "e", "6", "8", "5", "d", "3", "2", "3", "5", "A", "F">> \o
    <<"4", "9", "3", "B", "8", "F", "3", "8", "B", "4", "4", "0", "f", "D", "3", "0", "8", "6", "0", "e">>

contractAddress ==
    <<"0", "x", "b", "2", "f", "8", "2", "D", "0", "f", "3", "8", "d", "c", "4", "5", "3", "D", "5", "9", "6", "A", "d", "4">> \o
    <<"0", "A", "3", "7", "7", "9", "9", "4", "4", "6", "C", "c", "8", "9", "2", "7", "4", "A">>

gasLimitStake == 500000
gasLimitUnstake == 800000
gasLimitClaim == 800000
Decimals == 18
WordLen == 64

depositSelector == <<"0", "x", "6", "e", "5", "5", "3", "f", "6", "5">>
unstakeSelector == <<"0", "x", "7", "d", "4", "1", "c", "8", "6", "e">>
redeemSelector == <<"0", "x", "4", "9", "2", "e", "4", "7", "d", "2">>

Operations == {"deposit", "unstake", "redeem"}

\* a variant of Falsy that overlooks the empty string
FalsyAbsentOnly(x) == x = Absent

\* !x for an optional string parameter
Falsy(x) == x = Absent \/ x = <<>>

\* a variant of HexWord that leaves out the padding
HexWordUnpadded(n) == toString16(n)

\* x.toString(16).padStart(64, '0')
HexWord(n) == CHOOSE r \in {padStart(hex, WordLen, "0") : hex \in {toString16(n)}} : TRUE

\* senderAccount.address.slice(2).padStart(64, '0')
AddressWord(addr) == padStart(slice(addr, 2), WordLen, "0")

\* the transaction request of a case of the switch
RequestOf(operationName, selector, words, value, gasLimit) ==
    [operationName |-> operationName, words |-> words, data |-> selector \o Flatten(words),
     value |-> value, gasLimit |-> gasLimit]

\* a variant of DepositRequest that attaches no value
DepositRequestNoValue(depositValue, addr) ==
    RequestOf("Deposit", depositSelector,
              <<HexWord(depositValue), AddressWord(addr)>>,
              Zero, gasLimitStake)

\* case "deposit", once the amount is parsed
DepositRequest(depositValue, addr) ==
    RequestOf("Deposit", depositSelector,
              <<HexWord(depositValue), AddressWord(addr)>>,
              depositValue, gasLimitStake)

\* case "unstake", once the amount is parsed
UnstakeRequest(unstakeValue, addr) ==
    RequestOf("Unstake", unstakeSelector,
              <<HexWord(unstakeValue), AddressWord(addr), AddressWord(addr)>>,
              Zero, gasLimitUnstake)

\* case "redeem", once the request id is converted
RedeemRequest(requestIdBigInt, addr) ==
    LET offsetHex == padStart(<<"4", "0">>, WordLen, "0")
        flagHex == padStart(<<"0", "1">>, WordLen, "0")
    IN RequestOf("Redeem", redeemSelector,
                 <<offsetHex, AddressWord(addr), flagHex, HexWord(requestIdBigInt)>>,
                 Zero, gasLimitClaim)

\* the switch of the handler: the transaction request it builds, or the
\* exception a conversion throws
BuildRequest(operation, amount, requestId, addr) ==
    CASE operation = "deposit" ->
           CHOOSE r \in {IF parsed.throws THEN parsed
                         ELSE Returns(DepositRequest(parsed.val, addr)) :
                            parsed \in {parseUnits(amount, Decimals)}} : TRUE
      [] operation = "unstake" ->
           CHOOSE r \in {IF parsed.throws THEN parsed
                         ELSE Returns(UnstakeRequest(parsed.val, addr)) :
                            parsed \in {parseUnits(amount, Decimals)}} : TRUE
      [] operation = "redeem" ->
           CHOOSE r \in {IF parsed.throws THEN parsed
                         ELSE Returns(RedeemRequest(parsed.val, addr)) :
                            parsed \in {BigIntOf(requestId)}} : TRUE

NoResult == [kind |-> "none", text |-> <<>>]
Success(text) == [kind |-> "success", text |-> text]
Failure(text) == [kind |-> "error", text |-> text]

\* the parameter validation at the head of the handler

StakeIdle ==
    [pc |-> "idle", operation |-> "deposit", amount |-> Absent, requestId |-> Absent,
     words |-> <<>>, operationName |-> "", result |-> NoResult]

\* the handler once its parameters are validated and the switch has run
StakeSubmit(call, built) ==
    IF built.throws
    THEN [call |-> [call EXCEPT !.pc = "done",
                      !.result = Failure(<<"Apriori failed", call.operation, built.message>>)],
          send |-> <<>>]
    ELSE [call |-> [call EXCEPT !.pc = "sendTransaction", !.words = built.val.words,
                      !.operationName = built.val.operationName],
          send |-> <<[to |-> contractAddress, data |-> built.val.data,
                      value |-> built.val.value, gas |-> built.val.gasLimit]>>]

\* the handler from its entry to its first await or its return
StakeEnter(operation, amount, requestId, addr) ==
    LET call == [StakeIdle EXCEPT !.operation = operation, !.amount = amount,
                                  !.requestId = requestId]
    IN IF operation \in {"deposit", "unstake"} /\ Falsy(amount)
       THEN [call |-> [call EXCEPT !.pc = "done",
                         !.result = Failure(<<"Error: Amount is required for", operation>>)],
             send |-> <<>>]
       ELSE IF operation = "redeem" /\ Falsy(requestId)
       THEN [call |-> [call EXCEPT !.pc = "done",
                         !.result = Failure(<<"Error: Request ID is required for redeem operation.">>)],
             send |-> <<>>]
       ELSE CHOOSE r \in {StakeSubmit(call, built) :
                             built \in {BuildRequest(operation, amount, requestId, addr)}} : TRUE

-----------------------------------------------------------------------------
(* The chain as the RPC endpoint reports it.  A chain is [head, blocks]:   *)
(* blocks[n] is the transaction list of block n, for n in 0..head.  A      *)
(* request for a block number below 0 cannot be encoded and always fails;  *)
(* any other request may fail.                                              *)

HeadHigh == 12      \* head of the long chains
HeadLow == 3        \* head of a chain younger than the walk is long

AddrAb == <<"0", "x", "A", "b">>
AddrCd == <<"0", "x", "c", "d">>
AddrEf == <<"0", "x", "E", "F">>

Tx(hash, from, to, status) == [hash |-> hash, from |-> from, to |-> to, status |-> status]

\* a chain with transfers, a contract creation and empty blocks
BusyBlock(n) ==
    CASE n % 3 = 0 -> <<Tx(<<n, 1>>, AddrAb, AddrCd, "success"),
                        Tx(<<n, 2>>, AddrEf, AddrAb, "reverted"),
                        Tx(<<n, 3>>, AddrCd, Null, "success")>>
      [] n % 3 = 1 -> <<Tx(<<n, 1>>, AddrEf, AddrCd, "success")>>
      [] OTHER -> <<>>

\* a chain that reports the same transactions again and again: a self-send
\* listed twice in every block, and a transfer
DupBlock(n) ==
    <<Tx(<<0, 1>>, AddrAb, AddrAb, "success"),
      Tx(<<0, 1>>, AddrAb, AddrAb, "success"),
      Tx(<<0, 2>>, AddrAb, AddrCd, "success")>>


Chains ==
    {[head |-> HeadHigh, blocks |-> [n \in 0..HeadHigh |-> BusyBlock(n)]],
     [head |-> HeadHigh, blocks |-> [n \in 0..HeadHigh |-> DupBlock(n)]],
     [head |-> HeadLow, blocks |-> [n \in 0..HeadLow |-> <<Tx(<<n, 1>>, AddrAb, AddrEf, "success")>>]]}

\* whether getBlock({blockNumber: n}) can be answered at all
BlockExists(c, n) == n \in DOMAIN c.blocks

\* a JavaScript number that is an integer or a half: num / den
Num(n) == [num |-> n, den |-> 1]
Half(n) == [num |-> n, den |-> 2]
\* n < q, n >= q and Math.min(q, n) for an integer n
Less(n, q) == n * q.den < q.num
MathMin(q, n) == IF Less(n, q) THEN Num(n) ELSE q

-----------------------------------------------------------------------------
(* account-transaction-history *)

blocksToSearch == 10
DefaultLimit == 10

HistIdle ==
    [pc |-> "idle", address |-> <<>>, limit |-> Num(0), sentTxs |-> 0, latestBlock |-> 0,
     transactions |-> <<>>, processed |-> {}, currentBlock |-> 0, i |-> 0,
     block |-> <<>>, blockNumber |-> 0, txIdx |-> 0, logged |-> <<>>,
     calls |-> [getTransactionCount |-> 0, getBlockNumber |-> 0, getBlock |-> 0,
                getTransactionReceipt |-> 0],
     result |-> NoResult]

Request(h, name) == [h EXCEPT !.pc = name, !.calls[name] = @ + 1]

\* a variant of Involves that compares the addresses as they are written
InvolvesAsWritten(tx, address) == tx.from = address \/ tx.to = address

\* txFrom === formattedAddress || txTo === formattedAddress
Involves(tx, address) ==
    LET formattedAddress == toLowerCase(address)
        txFrom == toLowerCase(tx.from)
        txTo == IF tx.to # Null THEN toLowerCase(tx.to) ELSE Null
    IN txFrom = formattedAddress \/ txTo = formattedAddress

\* a variant of Skip that keeps no record of the hashes seen
SkipLimitOnly(h, tx) == ~Less(Len(h.transactions), h.limit)

\* the skip test at the head of the transaction loop
Skip(h, tx) == tx.hash \in h.processed \/ ~Less(Len(h.transactions), h.limit)

\* a variant of KeepWalking that does not look at the records collected
KeepWalkingBlocksOnly(h) == h.i < blocksToSearch

\* the condition of the block loop
KeepWalking(h) == h.i < blocksToSearch /\ Less(Len(h.transactions), h.limit)

\* the head of the block loop: the next getBlock request, or the report
HistLoopHead(h) ==
    IF KeepWalking(h)
    THEN Request(h, "getBlock")
    ELSE [h EXCEPT !.pc = "done",
                   !.result = Success([sentTxs |-> h.sentTxs, transactions |-> h.transactions])]

\* the end of an iteration, reached from the end of the try block and from
\* the catch block alike: currentBlock = currentBlock - 1n, then i++
HistNextBlock(h) == HistLoopHead([h EXCEPT !.currentBlock = @ - 1, !.i = @ + 1])

\* the transaction loop from the k-th transaction of the fetched block up to
\* the next request
RECURSIVE HistScan(_, _)
HistScan(h, k) ==
    IF k > Len(h.block) THEN HistNextBlock(h)
    ELSE IF Skip(h, h.block[k]) THEN HistScan(h, k + 1)
    ELSE IF Involves(h.block[k], h.address)
    THEN Request([h EXCEPT !.txIdx = k], "getTransactionReceipt")
    ELSE HistScan(h, k + 1)

\* transactions.push({...}); processed.add(tx.hash)
HistRecord(h) ==
    LET tx == h.block[h.txIdx]
    IN [hash |-> tx.hash, blockNumber |-> h.blockNumber, from |-> tx.from,
        to |-> tx.to, status |-> tx.status]

\* a variant of HistPush that puts the record at the front of the list
HistPushFront(h) ==
    [h EXCEPT !.transactions = <<HistRecord(h)>> \o @,
              !.processed = @ \cup {h.block[h.txIdx].hash}]

HistPush(h) ==
    [h EXCEPT !.transactions = Append(@, HistRecord(h)),
              !.processed = @ \cup {h.block[h.txIdx].hash}]

\* a variant of HistCatch that lets the failure end the call
HistCatchRethrow(h, msg) ==
    [h EXCEPT !.pc = "done",
              !.result = Failure(<<"Error fetching transaction history", msg>>)]

\* catch (blockError): the failure is logged with the block number
HistCatch(h, msg) == HistNextBlock([h EXCEPT !.logged = <<h.currentBlock, msg>>])

\* the outer catch
HistFail(h, msg) ==
    [h EXCEPT !.pc = "done",
              !.result = Failure(<<"Error fetching transaction history", msg>>)]

\* the nonce the endpoint reports: the transactions the address has sent
NonceOf(c, address) ==
    LET sent(n) == {k \in DOMAIN c.blocks[n] :
                       toLowerCase(c.blocks[n][k].from) = toLowerCase(address)}
        counts == [n \in DOMAIN c.blocks |-> Cardinality(sent(n))]
        sum[n \in -1..c.head] == IF n < 0 THEN 0 ELSE counts[n] + sum[n - 1]
    IN sum[c.head]

-----------------------------------------------------------------------------
(* chain-statistics *)

MaxStatBlocks == 10     \* Math.min(blocks, 10)
DefaultBlocks == 5

StatsIdle ==
    [pc |-> "idle", blocks |-> Num(0), latestBlock |-> 0, totalTransactions |-> 0,
     uniqueAddresses |-> {}, i |-> 0, blockNumber |-> 0, walked |-> <<>>,
     fetched |-> {}, logged |-> 0,
     calls |-> [getBlockNumber |-> 0, getBlock |-> 0, getBlockTxs |-> 0, getChainId |-> 0,
               getGasPrice |-> 0],
     result |-> NoResult]

\* every tx.from, and every tx.to that exists
AddressesOf(txs) ==
    {txs[k].from : k \in DOMAIN txs} \cup {txs[k].to : k \in {j \in DOMAIN txs : txs[j].to # Null}}

\* x.toFixed(2) of x = total / blocks: NaN and Infinity print as such, any
\* other quotient as its nearest number of hundredths, a tie going away from 0
RoundDiv(a, b) == (2 * a + b) \div (2 * b)
Average(total, divisor) ==
    IF divisor.num = 0
    THEN [kind |-> IF total = 0 THEN "NaN" ELSE "Infinity", hundredths |-> 0]
    ELSE IF divisor.num > 0
    THEN [kind |-> "number", hundredths |-> RoundDiv(100 * total * divisor.den, divisor.num)]
    ELSE [kind |-> "number", hundredths |-> 0 - RoundDiv(100 * total * divisor.den, 0 - divisor.num)]

\* a variant of Divisor that counts the blocks that were fetched
DivisorFetched(t) == Num(Cardinality(t.fetched))

\* the divisor of the reported average: the requested count
Divisor(t) == t.blocks

StatsReport(t) ==
    [latestBlock |-> t.latestBlock, blocks |-> t.blocks,
     totalTransactions |-> t.totalTransactions,
     uniqueAddresses |-> Cardinality(t.uniqueAddresses),
     average |-> Average(t.totalTransactions, Divisor(t))]

\* a variant of WalkBound without the cap
WalkBoundUncapped(t) == t.blocks

\* the bound of the block loop
WalkBound(t) == MathMin(t.blocks, MaxStatBlocks)

\* the head of the block loop: blockNumber = latestBlock - BigInt(i) and the
\* first getBlock of the iteration, or the requests that follow the loop
StatsLoopHead(t) ==
    IF Less(t.i, WalkBound(t))
    THEN Request([t EXCEPT !.blockNumber = t.latestBlock - t.i,
                           !.walked = Append(@, t.latestBlock - t.i)], "getBlock")
    ELSE Request(t, "getChainId")

\* i++
StatsNextBlock(t) == StatsLoopHead([t EXCEPT !.i = @ + 1])

\* totalTransactions += txCount and the forEach over the transactions
StatsTally(t, txs) ==
    [t EXCEPT !.totalTransactions = @ + Len(txs),
              !.uniqueAddresses = @ \cup AddressesOf(txs),
              !.fetched = @ \cup {t.blockNumber}]

\* catch (error) inside the loop: the failure is logged
StatsCatch(t) == StatsNextBlock([t EXCEPT !.logged = @ + 1])

\* the outer catch
StatsFail(t, msg) ==
    [t EXCEPT !.pc = "done",
              !.result = Failure(<<"Error fetching chain statistics", msg>>)]

-----------------------------------------------------------------------------
(* The tools without a walk: check-wallet-balances, monad-network-info,    *)
(* transaction-details, send-mon, swap-mon and smart-contract-reader.  Each *)
(* handler is one try block around a fixed sequence of awaited requests;    *)
(* its catch block returns a text that ends with the message of the error.  *)

\* String.prototype.toUpperCase on letters
LowerLetters ==
    <<"a", "b", "c", "d", "e", "f", "g", "h", "i", "j", "k", "l", "m",
      "n", "o", "p", "q", "r", "s", "t", "u", "v", "w", "x", "y", "z">>
UpperLetters ==
    <<"A", "B", "C", "D", "E", "F", "G", "H", "I", "J", "K", "L", "M",
      "N", "O", "P", "Q", "R", "S", "T", "U", "V", "W", "X", "Y", "Z">>
toUpperCase(s) ==
    [i \in DOMAIN s |->
        IF s[i] \in Range(LowerLetters)
        THEN UpperLetters[CHOOSE j \in DOMAIN LowerLetters : LowerLetters[j] = s[i]]
        ELSE s[i]]

ROUTER_ADDRESS ==
    <<"0", "x", "C", "a", "8", "1", "0", "D", "0", "9", "5", "e", "9", "0", "D", "a", "a", "e", "6", "e", "8", "6">> \o
    <<"7", "c", "1", "9", "D", "F", "6", "D", "9", "A", "8", "C", "5", "6", "d", "b", "2", "c", "8", "9">>

WMON ==
    <<"0", "x", "7", "6", "0", "A", "f", "E", "8", "6", "e", "5", "d", "e", "5", "f", "a", "0", "E", "e", "5", "4">> \o
    <<"2", "f", "c", "7", "B", "7", "B", "7", "1", "3", "e", "1", "c", "5", "4", "2", "5", "7", "0", "1">>

\* TOKEN_ADDRESSES, as the pairs <<symbol, address>>
TOKEN_ADDRESSES ==
    {<<<<"U", "S", "D", "C">>,
       <<"0", "x", "f", "8", "1", "7", "2", "5", "7", "f", "e", "d", "3", "7", "9", "8", "5", "3", "c", "D", "e", "0">> \o
       <<"f", "a", "4", "F", "9", "7", "A", "B", "9", "8", "7", "1", "8", "1", "B", "1", "E", "5", "E", "a">>>>,
     <<<<"U", "S", "D", "T">>,
       <<"0", "x", "8", "8", "b", "8", "E", "2", "1", "6", "1", "D", "E", "D", "C", "7", "7", "E", "F", "4", "a", "b">> \o
       <<"7", "5", "8", "5", "5", "6", "9", "D", "2", "4", "1", "5", "a", "1", "C", "1", "0", "5", "5", "D">>>>,
     <<<<"D", "A", "K">>,
       <<"0", "x", "0", "F", "0", "B", "D", "E", "b", "F", "0", "F", "8", "3", "c", "D", "1", "E", "E", "3", "9", "7">> \o
       <<"4", "7", "7", "9", "B", "c", "b", "7", "3", "1", "5", "f", "9", "8", "0", "8", "c", "7", "1", "4">>>>,
     <<<<"C", "H", "O", "G">>,
       <<"0", "x", "E", "0", "5", "9", "0", "0", "1", "5", "A", "8", "7", "3", "b", "F", "3", "2", "6", "b", "d", "6">> \o
       <<"4", "5", "c", "3", "E", "1", "2", "6", "6", "d", "4", "d", "b", "4", "1", "C", "4", "E", "6", "B">>>>,
     <<<<"Y", "A", "K", "I">>,
       <<"0", "x", "f", "e", "1", "4", "0", "e", "1", "d", "C", "e", "9", "9", "B", "e", "9", "F", "4", "F", "1", "5">> \o
       <<"d", "6", "5", "7", "C", "D", "9", "b", "7", "B", "F", "6", "2", "2", "2", "7", "0", "C", "5", "0">>>>}

\* tokenAddress.toUpperCase() in TOKEN_ADDRESSES ? TOKEN_ADDRESSES[...] : tokenAddress
FinalTokenAddress(tokenAddress) ==
    LET hits == {e \in TOKEN_ADDRESSES : e[1] = toUpperCase(tokenAddress)}
    IN IF hits = {} THEN tokenAddress ELSE (CHOOSE e \in hits : TRUE)[2]

\* the address test of encodeFunctionData: 0x and 40 hexadecimal digits; an
\* address with capitals must carry its checksum, which the addresses of
\* the source do
IsAddress(s) ==
    /\ Len(s) = 42
    /\ SubSeq(s, 1, 2) = <<"0", "x">>
    /\ \A i \in 3..42 : s[i] \in Range(HexDigits) \cup Range(UpperHex)
    /\ \/ toLowerCase(s) = s
       \/ s \in {e[2] : e \in TOKEN_ADDRESSES} \cup {WMON, ROUTER_ADDRESS, senderAddress}

\* encodeFunctionData({functionName: "swapExactETHForTokens",
\*                     args: [0n, path, senderAccount.address, BigInt(deadline)]})
EncodeSwap(path, to) ==
    IF \A i \in DOMAIN path : IsAddress(path[i])
    THEN IF IsAddress(to) THEN Returns([path |-> path, to |-> to])
         ELSE Throws("InvalidAddressError")
    ELSE Throws("InvalidAddressError")

\* the texts JSON.parse accepts, among the texts the calls are made with
JsonTexts ==
    {<<"[", "]">>, <<"[", "1", "]">>, <<"{", "}">>,
     <<"{", "\"", "a", "\"", ":", "1", "}">>}

JSONparse(text) ==
    IF text \in JsonTexts THEN Returns(text) ELSE Throws("SyntaxError")


\* the tools that submit a transaction
Mutating == {"send-mon", "swap-mon"}

\* the awaited requests of a handler, in the order of its code
Requests(name) ==
    CASE name = "check-wallet-balances" -> <<"getBalance">>
      [] name = "monad-network-info" -> <<"getBlockNumber", "getChainId", "getGasPrice">>
      [] name = "transaction-details" -> <<"getTransaction", "getTransactionReceipt">>
      [] name = "send-mon" -> <<"sendTransaction">>
      [] name = "swap-mon" -> <<"sendTransaction">>
      [] name = "smart-contract-reader" -> <<"readContract">>

\* the head of the text of the return statement at the end of the try block
SuccessText(name) ==
    CASE name = "check-wallet-balances" -> "Balance for"
      [] name = "monad-network-info" -> "Monad Network Information:"
      [] name = "transaction-details" -> "Transaction Details for"
      [] name = "send-mon" -> "Sent"
      [] name = "swap-mon" -> "Swap transaction sent!"
      [] name = "smart-contract-reader" -> "Contract Read Results:"

\* the head of the text of the return statement of the catch block
CatchText(name) ==
    CASE name = "check-wallet-balances" -> "Failed to retrieve balance for address"
      [] name = "monad-network-info" -> "Failed to retrieve Monad network information. Error:"
      [] name = "transaction-details" -> "Failed to retrieve transaction details for hash"
      [] name = "send-mon" -> "Failed to send MON. Error:"
      [] name = "swap-mon" -> "Swap failed:"
      [] name = "smart-contract-reader" -> "Error reading contract:"

\* error is the message of what the try block threw, hash the transaction
\* hash a mutating tool obtained
ToolIdle ==
    [pc |-> "idle", name |-> "", remaining |-> <<>>, answered |-> <<>>, error |-> "",
     hash |-> "", result |-> NoResult]

\* a variant of ToolCatch that returns nothing
ToolCatchSilent(t, msg) == [t EXCEPT !.pc = "done", !.error = msg]

\* a variant of ToolCatch whose text leaves the message out
ToolCatchTerse(t, msg) ==
    [t EXCEPT !.pc = "done", !.error = msg, !.result = Failure(<<CatchText(t.name)>>)]

\* catch (error): error instanceof Error ? error.message : String(error)
ToolCatch(t, msg) ==
    [t EXCEPT !.pc = "done", !.error = msg,
              !.result = Failure(<<CatchText(t.name), msg>>)]

\* the handler at its first await
ToolStart(name) ==
    [ToolIdle EXCEPT !.name = name, !.remaining = Requests(name),
                     !.pc = Requests(name)[1]]

\* the awaited request answers: the next await, or the return statement
ToolAdvance(t) ==
    IF Len(t.remaining) > 1
    THEN [t EXCEPT !.pc = t.remaining[2], !.remaining = Tail(@),
                   !.answered = Append(@, t.pc)]
    ELSE [t EXCEPT !.pc = "done", !.remaining = <<>>, !.answered = Append(@, t.pc),
                   !.hash = IF t.name \in Mutating THEN "hash" ELSE "",
                   !.result = Success(<<SuccessText(t.name)>> \o
                                      (IF t.name \in Mutating THEN <<"hash">> ELSE <<>>))]

\* send-mon up to its await: parseUnits(amount, 18) may throw
SendMonEnter(amount) ==
    CHOOSE r \in {IF value.throws THEN ToolCatch(ToolStart("send-mon"), value.message)
                  ELSE ToolStart("send-mon") : value \in {parseUnits(amount, Decimals)}} : TRUE

\* swap-mon up to its await: parseUnits and encodeFunctionData may throw
SwapMonEnter(tokenAddress, monAmount) ==
    CHOOSE r \in {IF value.throws THEN ToolCatch(ToolStart("swap-mon"), value.message)
                  ELSE IF data.throws THEN ToolCatch(ToolStart("swap-mon"), data.message)
                  ELSE ToolStart("swap-mon") :
                     value \in {parseUnits(monAmount, Decimals)},
                     data \in {EncodeSwap(<<WMON, FinalTokenAddress(tokenAddress)>>,
                                          senderAddress)}} : TRUE

\* smart-contract-reader up to its await: the inner try block returns the
\* parse error by itself
ContractReaderEnter(functionInputs, abiFragment) ==
    LET parsedAbi == JSONparse(abiFragment)
        parsedInputs == JSONparse(functionInputs)
        t == ToolStart("smart-contract-reader")
    IN IF parsedAbi.throws \/ parsedInputs.throws
       THEN [t EXCEPT !.pc = "done",
                      !.error = IF parsedAbi.throws THEN parsedAbi.message
                                ELSE parsedInputs.message,
                      !.result = Failure(<<"Error parsing inputs:",
                                           IF parsedAbi.throws THEN parsedAbi.message
                                           ELSE parsedInputs.message>>)]
       ELSE t

\* what a failed request says of itself
Messages == {"HTTP request failed", "execution reverted"}

-----------------------------------------------------------------------------
(* Calls of the aggregators in flight together.  The handlers are async    *)
(* functions: at every await another call may run.  transactions,          *)
(* processed, currentBlock and i, and totalTransactions and                *)
(* uniqueAddresses, are declared inside the handlers, so every call has    *)
(* its own; publicClient is the one object the calls share, and they only  *)
(* send requests through it.                                               *)

\* two calls in flight together
Slots == {"one", "other"}

\* a slot without a call
Free == [tool |-> "none", locals |-> [pc |-> "idle"]]


\* a variant of Local in which transactions and processed are declared once
\* for the module: a history call works on those of the other one
LocalShared(p, id) ==
    IF \A k \in Slots : p[k].tool = "history" /\ p[k].locals.pc # "done"
    THEN [p[id].locals EXCEPT !.transactions = p["one"].locals.transactions,
                              !.processed = p["one"].locals.processed]
    ELSE p[id].locals

\* the locals a call works on: its own
Local(p, id) == p[id].locals

\* the history handler from the settling of the request it awaits to its
\* next await or its return
HistReply(h, c, ok) ==
    CASE h.pc = "getTransactionCount" ->
            IF ok THEN Request([h EXCEPT !.sentTxs = NonceOf(c, h.address)], "getBlockNumber")
            ELSE HistFail(h, "getTransactionCount failed")
      [] h.pc = "getBlockNumber" ->
            IF ok THEN HistLoopHead([h EXCEPT !.latestBlock = c.head, !.currentBlock = c.head])
            ELSE HistFail(h, "getBlockNumber failed")
      [] h.pc = "getBlock" ->
            IF ok THEN HistScan([h EXCEPT !.block = c.blocks[h.currentBlock],
                                          !.blockNumber = h.currentBlock], 1)
            ELSE HistCatch(h, "getBlock failed")
      [] h.pc = "getTransactionReceipt" ->
            IF ok THEN HistScan(HistPush(h), h.txIdx + 1)
            ELSE HistCatch(h, "getTransactionReceipt failed")

\* the statistics handler, likewise
StatsReply(t, c, ok) ==
    CASE t.pc = "getBlockNumber" ->
            IF ok THEN StatsLoopHead([t EXCEPT !.latestBlock = c.head])
            ELSE StatsFail(t, "getBlockNumber failed")
      [] t.pc = "getBlock" ->
            IF ok THEN Request(t, "getBlockTxs") ELSE StatsCatch(t)
      [] t.pc = "getBlockTxs" ->
            IF ok THEN StatsNextBlock(StatsTally(t, c.blocks[t.blockNumber]))
            ELSE StatsCatch(t)
      [] t.pc = "getChainId" ->
            IF ok THEN Request(t, "getGasPrice") ELSE StatsFail(t, "getChainId failed")
      [] t.pc = "getGasPrice" ->
            IF ok THEN [t EXCEPT !.pc = "done", !.result = Success(StatsReport(t))]
            ELSE StatsFail(t, "getGasPrice failed")

\* whether the request a call awaits can be answered at all
Answerable(l, c) ==
    /\ l.pc \notin {"idle", "done"}
    /\ l.pc = "getBlock" /\ "currentBlock" \in DOMAIN l => BlockExists(c, l.currentBlock)
    /\ l.pc \in {"getBlock", "getBlockTxs"} /\ "walked" \in DOMAIN l
          => BlockExists(c, l.blockNumber)

-----------------------------------------------------------------------------
(* The inputs of the calls *)

Str15 == <<"1", ".", "5">>
Wei1 == <<"0", ".">> \o Repeat("0", 17) \o <<"1">>
\* 10^77 and 10^78 wei: the largest power of ten below 2^256, and the next

Amounts ==
    {Absent, <<>>, Str15, <<"1">>, <<"0">>, <<".">>, <<"-", "1">>, <<"a", "b", "c">>,
     Wei1, Wei1 \o <<"5">>, <<"1">> \o Repeat("0", 59), <<"1">> \o Repeat("0", 60)}

\* 2^256 - 1 and 2^256 as hexadecimal literals, 2^256 as a decimal one
Id256Max == <<"0", "x">> \o Repeat("f", 64)
Id256OverDec ==
    <<"1", "1", "5", "7", "9", "2", "0", "8", "9", "2", "3", "7", "3", "1", "6", "1", "9", "5", "4", "2", "3", "5", "7", "0", "9", "8">> \o
    <<"5", "0", "0", "8", "6", "8", "7", "9", "0", "7", "8", "5", "3", "2", "6", "9", "9", "8", "4", "6", "6", "5", "6", "4", "0", "5">> \o
    <<"6", "4", "0", "3", "9", "4", "5", "7", "5", "8", "4", "0", "0", "7", "9", "1", "3", "1", "2", "9", "6", "3", "9", "9", "3", "6">>

RequestIds ==
    {Absent, <<>>, <<"0">>, <<"2", "5", "5">>, <<"1", "2">>, <<" ", "7">>,
     <<"-", "1">>, <<"1", ".", "5">>, <<"a", "b", "c">>,
     Id256Max, <<"0", "x", "1">> \o Repeat("0", 64), Id256OverDec}

Addresses == {<<"0", "x", "a", "B">>, AddrCd}

Limits == {Num(0), Half(1), Num(1), Num(2), Half(5), Num(3), Num(DefaultLimit)}

BlockCounts ==
    {Num(0 - 1), Num(0), Half(1), Num(1), Half(5), Num(DefaultBlocks),
     Num(MaxStatBlocks), Num(2 * MaxStatBlocks)}

\* amount / monAmount: z.string()
ToolAmounts == {Str15, <<"0">>, <<"-", "1">>, <<"a", "b", "c">>, <<>>}

\* tokenAddress: a symbol in either case, an address, something else
TokenInputs ==
    {<<"U", "S", "D", "C">>, <<"u", "s", "d", "t">>, toLowerCase(WMON), <<"x", "y", "z">>, <<>>}

\* functionInputs and abiFragment of smart-contract-reader
JsonInputs == JsonTexts \cup {<<"[">>, <<>>, <<"a", "b", "c">>}

\* the inputs of the calls in flight together
PoolAddresses == {<<"0", "x", "a", "B">>}
PoolLimits == {Num(1), Num(2)}
PoolBlockCounts == {Num(1), Num(2)}

-----------------------------------------------------------------------------
(* The server handling one tool call.  A call starts with fresh locals;    *)
(* each action below is the handler's code from one await to the next.     *)

Init ==
    /\ chain \in Chains
    /\ stake = StakeIdle
    /\ submitted = <<>>
    /\ hist = HistIdle
    /\ stats = StatsIdle
    /\ tool = ToolIdle
    /\ pool = [id \in Slots |-> Free]
    /\ alone = [id \in Slots |-> Free.locals]

Quiet == stake.pc = "idle" /\ hist.pc = "idle" /\ stats.pc = "idle" /\ tool.pc = "idle"

CallStake ==
    /\ Quiet
    /\ \E operation \in Operations, amount \in Amounts, requestId \in RequestIds :
          LET entered == StakeEnter(operation, amount, requestId, senderAddress)
          IN /\ stake' = entered.call
             /\ submitted' = entered.send
    /\ hist' = HistIdle
    /\ stats' = StatsIdle
    /\ UNCHANGED <<chain, tool, pool, alone>>

\* walletClient.sendTransaction resolves with a hash
SendTransactionOk ==
    /\ stake.pc = "sendTransaction"
    /\ stake' = [stake EXCEPT !.pc = "done",
                   !.result = Success(<<stake.operationName, "operation successful", "hash">>)]
    /\ UNCHANGED <<chain, tool, pool, alone, submitted, hist, stats>>

\* walletClient.sendTransaction rejects
SendTransactionFail ==
    /\ stake.pc = "sendTransaction"
    /\ stake' = [stake EXCEPT !.pc = "done",
                   !.result = Failure(<<"Apriori failed", stake.operation, "sendTransaction failed">>)]
    /\ UNCHANGED <<chain, tool, pool, alone, submitted, hist, stats>>

CallHistory ==
    /\ Quiet
    /\ \E address \in Addresses, limit \in Limits :
          hist' = Request([HistIdle EXCEPT !.address = address, !.limit = limit],
                          "getTransactionCount")
    /\ stake' = StakeIdle
    /\ submitted' = <<>>
    /\ stats' = StatsIdle
    /\ UNCHANGED <<chain, tool, pool, alone>>

HistNonceOk ==
    /\ hist.pc = "getTransactionCount"
    /\ hist' = Request([hist EXCEPT !.sentTxs = NonceOf(chain, hist.address)], "getBlockNumber")
    /\ UNCHANGED <<chain, tool, pool, alone, stake, submitted, stats>>

HistNonceFail ==
    /\ hist.pc = "getTransactionCount"
    /\ hist' = HistFail(hist, "getTransactionCount failed")
    /\ UNCHANGED <<chain, tool, pool, alone, stake, submitted, stats>>

HistHeadOk ==
    /\ hist.pc = "getBlockNumber"
    /\ hist' = HistLoopHead([hist EXCEPT !.latestBlock = chain.head,
                                         !.currentBlock = chain.head])
    /\ UNCHANGED <<chain, tool, pool, alone, stake, submitted, stats>>

HistHeadFail ==
    /\ hist.pc = "getBlockNumber"
    /\ hist' = HistFail(hist, "getBlockNumber failed")
    /\ UNCHANGED <<chain, tool, pool, alone, stake, submitted, stats>>

HistBlockOk ==
    /\ hist.pc = "getBlock"
    /\ BlockExists(chain, hist.currentBlock)
    /\ hist' = HistScan([hist EXCEPT !.block = chain.blocks[hist.currentBlock],
                                     !.blockNumber = hist.currentBlock], 1)
    /\ UNCHANGED <<chain, tool, pool, alone, stake, submitted, stats>>

HistBlockFail ==
    /\ hist.pc = "getBlock"
    /\ hist' = HistCatch(hist, "getBlock failed")
    /\ UNCHANGED <<chain, tool, pool, alone, stake, submitted, stats>>

HistReceiptOk ==
    /\ hist.pc = "getTransactionReceipt"
    /\ hist' = HistScan(HistPush(hist), hist.txIdx + 1)
    /\ UNCHANGED <<chain, tool, pool, alone, stake, submitted, stats>>

HistReceiptFail ==
    /\ hist.pc = "getTransactionReceipt"
    /\ hist' = HistCatch(hist, "getTransactionReceipt failed")
    /\ UNCHANGED <<chain, tool, pool, alone, stake, submitted, stats>>

CallStatistics ==
    /\ Quiet
    /\ \E blocks \in BlockCounts :
          stats' = Request([StatsIdle EXCEPT !.blocks = blocks], "getBlockNumber")
    /\ stake' = StakeIdle
    /\ submitted' = <<>>
    /\ hist' = HistIdle
    /\ UNCHANGED <<chain, tool, pool, alone>>

StatsHeadOk ==
    /\ stats.pc = "getBlockNumber"
    /\ stats' = StatsLoopHead([stats EXCEPT !.latestBlock = chain.head])
    /\ UNCHANGED <<chain, tool, pool, alone, stake, submitted, hist>>

StatsHeadFail ==
    /\ stats.pc = "getBlockNumber"
    /\ stats' = StatsFail(stats, "getBlockNumber failed")
    /\ UNCHANGED <<chain, tool, pool, alone, stake, submitted, hist>>

\* the getBlock without transactions answers
StatsBlockInfoOk ==
    /\ stats.pc = "getBlock"
    /\ BlockExists(chain, stats.blockNumber)
    /\ stats' = Request(stats, "getBlockTxs")
    /\ UNCHANGED <<chain, tool, pool, alone, stake, submitted, hist>>

StatsBlockInfoFail ==
    /\ stats.pc = "getBlock"
    /\ stats' = StatsCatch(stats)
    /\ UNCHANGED <<chain, tool, pool, alone, stake, submitted, hist>>

\* the getBlock with includeTransactions answers
StatsBlockTxsOk ==
    /\ stats.pc = "getBlockTxs"
    /\ BlockExists(chain, stats.blockNumber)
    /\ stats' = StatsNextBlock(StatsTally(stats, chain.blocks[stats.blockNumber]))
    /\ UNCHANGED <<chain, tool, pool, alone, stake, submitted, hist>>

StatsBlockTxsFail ==
    /\ stats.pc = "getBlockTxs"
    /\ stats' = StatsCatch(stats)
    /\ UNCHANGED <<chain, tool, pool, alone, stake, submitted, hist>>

StatsChainIdOk ==
    /\ stats.pc = "getChainId"
    /\ stats' = Request(stats, "getGasPrice")
    /\ UNCHANGED <<chain, tool, pool, alone, stake, submitted, hist>>

StatsChainIdFail ==
    /\ stats.pc = "getChainId"
    /\ stats' = StatsFail(stats, "getChainId failed")
    /\ UNCHANGED <<chain, tool, pool, alone, stake, submitted, hist>>

StatsGasPriceOk ==
    /\ stats.pc = "getGasPrice"
    /\ stats' = [stats EXCEPT !.pc = "done", !.result = Success(StatsReport(stats))]
    /\ UNCHANGED <<chain, tool, pool, alone, stake, submitted, hist>>

StatsGasPriceFail ==
    /\ stats.pc = "getGasPrice"
    /\ stats' = StatsFail(stats, "getGasPrice failed")
    /\ UNCHANGED <<chain, tool, pool, alone, stake, submitted, hist>>

CallBalance ==
    /\ Quiet
    /\ tool' = ToolStart("check-wallet-balances")
    /\ UNCHANGED <<chain, stake, submitted, hist, stats, pool, alone>>

CallNetworkInfo ==
    /\ Quiet
    /\ tool' = ToolStart("monad-network-info")
    /\ UNCHANGED <<chain, stake, submitted, hist, stats, pool, alone>>

CallTransactionDetails ==
    /\ Quiet
    /\ tool' = ToolStart("transaction-details")
    /\ UNCHANGED <<chain, stake, submitted, hist, stats, pool, alone>>

CallSendMon ==
    /\ Quiet
    /\ \E amount \in ToolAmounts : tool' = SendMonEnter(amount)
    /\ UNCHANGED <<chain, stake, submitted, hist, stats, pool, alone>>

CallSwapMon ==
    /\ Quiet
    /\ \E tokenAddress \in TokenInputs, monAmount \in ToolAmounts :
          tool' = SwapMonEnter(tokenAddress, monAmount)
    /\ UNCHANGED <<chain, stake, submitted, hist, stats, pool, alone>>

CallContractReader ==
    /\ Quiet
    /\ \E functionInputs \in JsonInputs, abiFragment \in JsonInputs :
          tool' = ContractReaderEnter(functionInputs, abiFragment)
    /\ UNCHANGED <<chain, stake, submitted, hist, stats, pool, alone>>

\* the awaited request of the tool resolves
ToolRequestOk ==
    /\ tool.pc \notin {"idle", "done"}
    /\ tool' = ToolAdvance(tool)
    /\ UNCHANGED <<chain, stake, submitted, hist, stats, pool, alone>>

\* the awaited request of the tool rejects
ToolRequestFail ==
    /\ tool.pc \notin {"idle", "done"}
    /\ \E msg \in Messages : tool' = ToolCatch(tool, msg)
    /\ UNCHANGED <<chain, stake, submitted, hist, stats, pool, alone>>

Next ==
    \/ CallStake \/ SendTransactionOk \/ SendTransactionFail
    \/ CallHistory \/ HistNonceOk \/ HistNonceFail \/ HistHeadOk \/ HistHeadFail
    \/ HistBlockOk \/ HistBlockFail \/ HistReceiptOk \/ HistReceiptFail
    \/ CallStatistics \/ StatsHeadOk \/ StatsHeadFail
    \/ StatsBlockInfoOk \/ StatsBlockInfoFail \/ StatsBlockTxsOk \/ StatsBlockTxsFail
    \/ StatsChainIdOk \/ StatsChainIdFail \/ StatsGasPriceOk \/ StatsGasPriceFail
    \/ CallBalance \/ CallNetworkInfo \/ CallTransactionDetails
    \/ CallSendMon \/ CallSwapMon \/ CallContractReader
    \/ ToolRequestOk \/ ToolRequestFail

Spec == Init /\ [][Next]_vars

\* the steps in which an awaited request of the call in progress settles
Respond ==
    \/ SendTransactionOk \/ SendTransactionFail
    \/ HistNonceOk \/ HistNonceFail \/ HistHeadOk \/ HistHeadFail
    \/ HistBlockOk \/ HistBlockFail \/ HistReceiptOk \/ HistReceiptFail
    \/ StatsHeadOk \/ StatsHeadFail
    \/ StatsBlockInfoOk \/ StatsBlockInfoFail \/ StatsBlockTxsOk \/ StatsBlockTxsFail
    \/ StatsChainIdOk \/ StatsChainIdFail \/ StatsGasPriceOk \/ StatsGasPriceFail
    \/ ToolRequestOk \/ ToolRequestFail

\* the server when every request it awaits is answered or fails in the end
LiveSpec == Spec /\ WF_vars(Respond)

-----------------------------------------------------------------------------
(* The server handling aggregator calls in flight together: a step is the  *)
(* entry of a call, or the code of one call from the settling of its       *)
(* request to its next await.                                               *)

ConcInit == Init /\ chain.head = HeadLow

PoolCallHistory ==
    /\ \E id \in Slots, address \in PoolAddresses, limit \in PoolLimits :
          /\ pool[id].tool = "none"
          /\ LET entered == Request([HistIdle EXCEPT !.address = address, !.limit = limit],
                                    "getTransactionCount")
             IN /\ pool' = [pool EXCEPT ![id] = [tool |-> "history", locals |-> entered]]
                /\ alone' = [alone EXCEPT ![id] = entered]
    /\ UNCHANGED <<chain, stake, submitted, hist, stats, tool>>

PoolCallStatistics ==
    /\ \E id \in Slots, blocks \in PoolBlockCounts :
          /\ pool[id].tool = "none"
          /\ LET entered == Request([StatsIdle EXCEPT !.blocks = blocks], "getBlockNumber")
             IN /\ pool' = [pool EXCEPT ![id] = [tool |-> "statistics", locals |-> entered]]
                /\ alone' = [alone EXCEPT ![id] = entered]
    /\ UNCHANGED <<chain, stake, submitted, hist, stats, tool>>

PoolHistoryOk ==
    /\ \E id \in Slots :
          /\ pool[id].tool = "history"
          /\ Answerable(pool[id].locals, chain)
          /\ pool' = [pool EXCEPT ![id].locals = HistReply(Local(pool, id), chain, TRUE)]
          /\ alone' = [alone EXCEPT ![id] = HistReply(alone[id], chain, TRUE)]
    /\ UNCHANGED <<chain, stake, submitted, hist, stats, tool>>

PoolHistoryFail ==
    /\ \E id \in Slots :
          /\ pool[id].tool = "history"
          /\ pool[id].locals.pc \notin {"idle", "done"}
          /\ pool' = [pool EXCEPT ![id].locals = HistReply(Local(pool, id), chain, FALSE)]
          /\ alone' = [alone EXCEPT ![id] = HistReply(alone[id], chain, FALSE)]
    /\ UNCHANGED <<chain, stake, submitted, hist, stats, tool>>

PoolStatisticsOk ==
    /\ \E id \in Slots :
          /\ pool[id].tool = "statistics"
          /\ Answerable(pool[id].locals, chain)
          /\ pool' = [pool EXCEPT ![id].locals = StatsReply(Local(pool, id), chain, TRUE)]
          /\ alone' = [alone EXCEPT ![id] = StatsReply(alone[id], chain, TRUE)]
    /\ UNCHANGED <<chain, stake, submitted, hist, stats, tool>>

PoolStatisticsFail ==
    /\ \E id \in Slots :
          /\ pool[id].tool = "statistics"
          /\ pool[id].locals.pc \notin {"idle", "done"}
          /\ pool' = [pool EXCEPT ![id].locals = StatsReply(Local(pool, id), chain, FALSE)]
          /\ alone' = [alone EXCEPT ![id] = StatsReply(alone[id], chain, FALSE)]
    /\ UNCHANGED <<chain, stake, submitted, hist, stats, tool>>

ConcNext ==
    \/ PoolCallHistory \/ PoolCallStatistics
    \/ PoolHistoryOk \/ PoolHistoryFail
    \/ PoolStatisticsOk \/ PoolStatisticsFail

ConcSpec == ConcInit /\ [][ConcNext]_vars

-----------------------------------------------------------------------------
(* Properties of apriori-mon-stake *)

IsHexString(s) == \A i \in DOMAIN s : s[i] \in Range(HexDigits) \cup Range(UpperHex)

\* the call was made with the parameter its operation needs left out
ParameterMissing ==
    \/ stake.operation \in {"deposit", "unstake"} /\ stake.amount \in {Absent, <<>>}
    \/ stake.operation = "redeem" /\ stake.requestId \in {Absent, <<>>}

\* C1: a deposit or unstake without amount (absent or empty), or a redeem
\* without requestId, returns an error report, and sendTransaction is never
\* invoked during that call.
C1_MissingParameterIsReported ==
    (stake.pc # "idle" /\ ParameterMissing)
        => /\ stake.pc = "done"
           /\ stake.result.kind = "error"
           /\ submitted = <<>>

C1_Witness ==
    /\ stake.pc = "done"
    /\ stake.operation = "unstake"
    /\ stake.amount = <<>>
    /\ stake.requestId = <<"1", "2">>
    /\ stake.result.kind = "error"
    /\ submitted = <<>>

\* the given request id denotes a negative integer or one of more than 256 bits
RequestIdOutOfRange ==
    /\ stake.requestId \notin {Absent, <<>>}
    /\ ~BigIntOf(stake.requestId).throws
    /\ \/ BigIntOf(stake.requestId).val.neg
       \/ Len(MagHex(BigIntOf(stake.requestId).val.mag)) > WordLen

\* C2: a redeem whose requestId is negative or exceeds 256 bits ends with an
\* error report and submits nothing: no calldata with a sign character or
\* with a word of more than 64 hexadecimal characters reaches sendTransaction.
C2_InvalidRequestIdIsRejected ==
    (stake.pc # "idle" /\ stake.operation = "redeem")
        => /\ RequestIdOutOfRange
                => stake.pc = "done" /\ stake.result.kind = "error" /\ submitted = <<>>
           /\ \A i \in DOMAIN submitted :
                /\ IsHexString(slice(submitted[i].data, 2))
                /\ Len(submitted[i].data) = 10 + 4 * WordLen

\* the fixed selector and the number of words of an operation
SelectorOf(operation) ==
    CASE operation = "deposit" -> <<"0", "x", "6", "e", "5", "5", "3", "f", "6", "5">>
      [] operation = "unstake" -> <<"0", "x", "7", "d", "4", "1", "c", "8", "6", "e">>
      [] operation = "redeem" -> <<"0", "x", "4", "9", "2", "e", "4", "7", "d", "2">>
WordCount(operation) ==
    CASE operation = "deposit" -> 2 [] operation = "unstake" -> 3 [] operation = "redeem" -> 4

\* a bigint in 0 .. 2^256 - 1
FitsWord(n) == ~n.neg /\ Len(MagHex(n.mag)) <= WordLen

\* the amount, scaled, or the request id of the call is in 0 .. 2^256 - 1
StakeInputFits ==
    IF stake.operation = "redeem"
    THEN ~BigIntOf(stake.requestId).throws /\ FitsWord(BigIntOf(stake.requestId).val)
    ELSE ~parseUnits(stake.amount, Decimals).throws
            /\ FitsWord(parseUnits(stake.amount, Decimals).val)

\* C3: with a scaled amount, or a request id, in 0 .. 2^256 - 1, the calldata
\* passed to sendTransaction is the selector of the operation followed by
\* exactly 2 (deposit), 3 (unstake) or 4 (redeem) words of 64 hexadecimal
\* characters each: 4 + 32 * wordCount bytes.
C3_CalldataLayout ==
    (stake.pc \in {"sendTransaction", "done"} /\ submitted # <<>> /\ StakeInputFits)
        => \A i \in DOMAIN submitted :
             LET data == submitted[i].data
             IN /\ SubSeq(data, 1, 10) = SelectorOf(stake.operation)
                /\ Len(data) = 2 + 2 * (4 + 32 * WordCount(stake.operation))
                /\ IsHexString(slice(data, 2))
                /\ Len(stake.words) = WordCount(stake.operation)
                /\ \A w \in DOMAIN stake.words : Len(stake.words[w]) = 64
                /\ slice(data, 10) = Flatten(stake.words)

C3_Witness ==
    /\ stake.pc = "done"
    /\ stake.operation = "redeem"
    /\ stake.requestId = Id256Max
    /\ stake.result.kind = "success"
    /\ Len(submitted) = 1
    /\ Len(submitted[1].data) = 266

\* the words the table prescribes
CallerWord == Repeat("0", 24) \o SubSeq(senderAddress, 3, 42)
Word(digits) == Repeat("0", 64 - Len(digits)) \o digits

\* the amount words and request id words of some inputs, written out
KnownWords ==
    <<[input |-> Str15, word |-> Word(<<"1", "4", "d", "1", "1", "2", "0", "d", "7", "b", "1", "6", "0", "0", "0", "0">>)],
      [input |-> <<"1">>, word |-> Word(<<"d", "e", "0", "b", "6", "b", "3", "a", "7", "6", "4", "0", "0", "0", "0">>)],
      [input |-> Wei1, word |-> Word(<<"1">>)],
      [input |-> <<"0">>, word |-> Repeat("0", 64)],
      [input |-> <<"2", "5", "5">>, word |-> Word(<<"f", "f">>)],
      [input |-> <<"1", "2">>, word |-> Word(<<"c">>)]>>

IsKnownWord(input, word) ==
    \A k \in DOMAIN KnownWords : KnownWords[k].input = input => KnownWords[k].word = word

\* C4: the submitted transaction follows the table of the operations.
\* deposit: words [amount * 10^18, caller], value amount * 10^18;
\* unstake: words [amount * 10^18, caller, caller], value 0;
\* redeem: words [0x40, caller, 0x01, requestId], value 0;
\* each to the staking contract with the gas limit of the operation; the
\* amount word of "1.5" is the hexadecimal of 1500000000000000000.
C4_TransactionTable ==
    \A i \in DOMAIN submitted :
       LET tx == submitted[i]
           words == slice(tx.data, 10)
           first == SubSeq(words, 1, Len(words) - 64 * (WordCount(stake.operation) - 1))
           rest == slice(words, Len(first))
           last == slice(words, 3 * 64)
       IN /\ tx.to = <<"0", "x", "b", "2", "f", "8", "2", "D", "0", "f", "3", "8", "d", "c", "4", "5", "3", "D", "5", "9", "6", "A", "d", "4", "0", "A", "3", "7", "7", "9", "9", "4", "4", "6", "C", "c", "8", "9", "2", "7", "4", "A">>
          /\ SubSeq(tx.data, 1, 10) = SelectorOf(stake.operation)
          /\ stake.operation = "deposit" =>
                /\ first = padStart(toString16(tx.value), 64, "0")
                /\ tx.value = parseUnits(stake.amount, 18).val
                /\ IsKnownWord(stake.amount, first)
                /\ rest = CallerWord
                /\ tx.gas = 500000
          /\ stake.operation = "unstake" =>
                /\ first = padStart(toString16(parseUnits(stake.amount, 18).val), 64, "0")
                /\ IsKnownWord(stake.amount, first)
                /\ rest = CallerWord \o CallerWord
                /\ tx.value = Zero
                /\ tx.gas = 800000
          /\ stake.operation = "redeem" =>
                /\ SubSeq(words, 1, 3 * 64) = Word(<<"4", "0">>) \o CallerWord \o Word(<<"1">>)
                /\ last = padStart(toString16(BigIntOf(stake.requestId).val), 64, "0")
                /\ IsKnownWord(stake.requestId, last)
                /\ tx.value = Zero
                /\ tx.gas = 800000

C4_Witness ==
    /\ stake.pc = "sendTransaction"
    /\ stake.operation = "deposit"
    /\ stake.amount = Str15
    /\ Len(submitted) = 1
    /\ submitted[1].data =
          SelectorOf("deposit") \o Word(<<"1", "4", "d", "1", "1", "2", "0", "d", "7", "b", "1", "6", "0", "0", "0", "0">>) \o CallerWord
    /\ submitted[1].value # Zero

-----------------------------------------------------------------------------
(* Properties of account-transaction-history *)

\* C5: the record list of a call never holds two records with the same
\* transaction hash, whatever blocks are fetched and whatever fails, also for
\* a transaction the address both sent and received.
C5_NoDuplicateHash ==
    \A a, b \in DOMAIN hist.transactions :
       a # b => hist.transactions[a].hash # hist.transactions[b].hash

C5_Witness ==
    /\ hist.pc = "done"
    /\ hist.result.kind = "success"
    /\ hist.i = blocksToSearch
    /\ hist.calls.getBlock = blocksToSearch
    /\ Len(hist.result.text.transactions) = 2
    /\ hist.result.text.transactions[1].from = hist.result.text.transactions[1].to
    /\ \E n \in DOMAIN chain.blocks : Len(chain.blocks[n]) > 1 /\
          chain.blocks[n][1].hash = chain.blocks[n][2].hash

\* C6: for every limit the input schema accepts and every pattern of
\* failures, a call issues at most 10 block fetches and returns at most
\* limit records.
C6_WalkStopsAtQuota ==
    /\ hist.calls.getBlock <= 10
    /\ (hist.pc = "done" /\ hist.result.kind = "success")
          => Len(hist.result.text.transactions) * hist.limit.den <= hist.limit.num

\* C7: with limit = 0 the call returns zero records and issues no getBlock
\* and no getTransactionReceipt request: it reads the nonce and the head
\* block number only.
C7_LimitZeroReadsNothing ==
    (hist.pc # "idle" /\ hist.limit = Num(0))
        => /\ hist.calls.getBlock = 0
           /\ hist.calls.getTransactionReceipt = 0
           /\ hist.calls.getTransactionCount = 1
           /\ hist.calls.getBlockNumber <= 1
           /\ hist.transactions = <<>>
           /\ hist.pc \in {"getTransactionCount", "getBlockNumber", "done"}
           /\ (hist.pc = "done" /\ hist.result.kind = "success")
                 => hist.result.text.transactions = <<>>

C7_Witness ==
    /\ hist.pc = "done"
    /\ hist.limit = Num(0)
    /\ hist.result.kind = "success"
    /\ hist.result.text.transactions = <<>>
    /\ hist.calls = [getTransactionCount |-> 1, getBlockNumber |-> 1, getBlock |-> 0,
                     getTransactionReceipt |-> 0]

-----------------------------------------------------------------------------
(* Properties of the two walks *)

\* a step of the history walk in which a fetch fails, and what it leaves
HistFailureSkips ==
    hist'.logged # hist.logged =>
        /\ hist.pc \in {"getBlock", "getTransactionReceipt"}
        /\ hist'.logged[1] = hist.currentBlock
        /\ hist'.transactions = hist.transactions
        /\ hist'.processed = hist.processed
        /\ hist'.sentTxs = hist.sentTxs
        /\ \/ /\ hist'.pc = "getBlock"
              /\ hist'.currentBlock = hist.currentBlock - 1
              /\ hist'.result = NoResult
           \/ /\ hist'.pc = "done"
              /\ hist'.i = 10
              /\ hist'.result.kind = "success"
              /\ hist'.result.text.transactions = hist.transactions

\* a step of the statistics walk in which a fetch fails, and what it leaves
StatsFailureSkips ==
    stats'.logged # stats.logged =>
        /\ stats.pc \in {"getBlock", "getBlockTxs"}
        /\ stats'.totalTransactions = stats.totalTransactions
        /\ stats'.uniqueAddresses = stats.uniqueAddresses
        /\ stats'.result = NoResult
        /\ \/ /\ stats'.pc = "getBlock"
              /\ stats'.blockNumber = stats.blockNumber - 1
           \/ /\ stats'.pc = "getChainId"
              /\ ~Less(stats'.i, MathMin(stats.blocks, 10))

\* an error report comes from a request outside the walk only
ErrorsAreOutsideTheWalk ==
    /\ hist'.result.kind = "error" /\ hist.result.kind # "error"
          => hist.pc \in {"getTransactionCount", "getBlockNumber"}
    /\ stats'.result.kind = "error" /\ stats.result.kind # "error"
          => stats.pc \in {"getBlockNumber", "getChainId", "getGasPrice"}
    /\ hist.pc \in {"getBlock", "getTransactionReceipt"}
          => hist'.logged # hist.logged \/ hist'.calls # hist.calls \/ hist'.pc = "done"
    /\ stats.pc = "getGasPrice" /\ stats'.result.kind = "success"
          => stats'.result.text.totalTransactions = stats.totalTransactions

\* C8: in both walks the failure of one block fetch or one receipt fetch
\* does not end the call with an error result: it is logged, what was
\* accumulated is kept, and the next request of the walk is for the block
\* one below the failed one, until the quota ends and the report is made.
C8_FetchFailureIsSkipped ==
    [][HistFailureSkips /\ StatsFailureSkips /\ ErrorsAreOutsideTheWalk]_vars

C8_Witness ==
    /\ hist.pc = "done"
    /\ hist.result.kind = "success"
    /\ hist.logged # <<>>
    /\ Len(hist.result.text.transactions) = 3
    /\ hist.result.text.transactions[1].blockNumber > hist.logged[1]
    /\ hist.result.text.transactions[3].blockNumber < hist.logged[1]
    /\ hist.calls.getTransactionReceipt > 3

-----------------------------------------------------------------------------
(* Properties of chain-statistics *)

\* the walk of the call is over
WalkOver == stats.calls.getChainId > 0

\* the block numbers of the iterations: head, head - 1, ...
WalkedDownFromHead ==
    /\ \A j \in DOMAIN stats.walked : stats.walked[j] = chain.head - (j - 1)
    /\ stats.calls.getBlockNumber <= 1
    /\ stats.walked # <<>> => stats.latestBlock = chain.head

\* C9, as claimed: for every requested blocks >= 0 the walk has exactly
\* min(blocks, 10) iterations, over head, head - 1, ..., with head read once.
C9_ExactlyMinIterations ==
    (stats.blocks.num >= 0 /\ stats.pc # "idle")
        => /\ WalkedDownFromHead
           /\ WalkOver => Len(stats.walked) * stats.blocks.den
                             = MathMin(stats.blocks, 10).num

\* the least integer that is not below num / den
Ceil(q) == Min({k \in 0..(IF q.num > 0 THEN q.num ELSE 0) : k * q.den >= q.num})

\* C9, amended: for every requested blocks >= 0 the walk has exactly
\* ceil(min(blocks, 10)) iterations (min(blocks, 10) when blocks is an
\* integer), over head, head - 1, ..., with head read once; blocks = 20
\* yields 10, whatever fails.
C9_CeilMinIterations ==
    (stats.blocks.num >= 0 /\ stats.pc # "idle")
        => /\ WalkedDownFromHead
           /\ Len(stats.walked) <= Ceil(MathMin(stats.blocks, 10))
           /\ WalkOver => Len(stats.walked) = Ceil(MathMin(stats.blocks, 10))
           /\ (WalkOver /\ stats.blocks = Num(20)) => Len(stats.walked) = 10

C9_Witness ==
    /\ stats.pc = "done"
    /\ stats.result.kind = "success"
    /\ stats.blocks = Half(5)
    /\ Len(stats.walked) = 3
    /\ stats.walked[3] = chain.head - 2
    /\ stats.logged = 1

\* the transactions of the blocks numbered in S
TxCount(c, S) ==
    LET sum[n \in -1..c.head] ==
            IF n < 0 THEN 0
            ELSE (IF n \in S THEN Len(c.blocks[n]) ELSE 0) + sum[n - 1]
    IN sum[c.head]

Abs(x) == IF x < 0 THEN 0 - x ELSE x

\* C10: the reported average is totalTransactions, the transaction count of
\* the blocks the walk fetched, divided by the requested blocks value (not
\* by the number of blocks processed, nor by the capped count), to two
\* decimals; with blocks = 5 it is exactly totalTransactions / 5.
C10_AverageOverRequested ==
    (stats.pc = "done" /\ stats.result.kind = "success")
        => LET report == stats.result.text
               total == report.totalTransactions
           IN /\ total = TxCount(chain, stats.fetched)
              /\ stats.fetched \subseteq Range(stats.walked)
              /\ report.blocks = stats.blocks
              /\ stats.blocks.num > 0 =>
                    /\ report.average.kind = "number"
                    /\ 2 * Abs(report.average.hundredths * stats.blocks.num
                                 - 100 * total * stats.blocks.den) <= stats.blocks.num
              /\ stats.blocks = Num(5) => report.average.hundredths = 20 * total
              /\ stats.blocks = Num(20) => report.average.hundredths = 5 * total

C10_Witness ==
    /\ stats.pc = "done"
    /\ stats.result.kind = "success"
    /\ stats.blocks = Num(5)
    /\ Cardinality(stats.fetched) = 3
    /\ stats.result.text.totalTransactions = 7
    /\ stats.result.text.average = [kind |-> "number", hundredths |-> 140]

-----------------------------------------------------------------------------
(* Properties of the error reports *)

\* the call has returned an error report whose text holds the message
Reported(call, msg) ==
    /\ call.pc = "done"
    /\ call.result.kind = "error"
    /\ msg \in Range(call.result.text)

\* the kinds of result a handler returns
ResultKinds == {"none", "success", "error"}

\* C11, as claimed: a call in which a request to the chain failed (of a
\* tool without a walk, or a block or receipt fetch of the history walk, or
\* a block fetch of the statistics walk) returns an error report whose text
\* holds the description of the failure.
C11_EveryReadFailureIsReported ==
    /\ (tool.pc = "done" /\ tool.error # "") => Reported(tool, tool.error)
    /\ (hist.pc = "done" /\ hist.logged # <<>>) => Reported(hist, hist.logged[2])
    /\ (stats.pc = "done" /\ stats.logged > 0) => stats.result.kind = "error"

\* a failed request outside the per-block try blocks ends the call with an
\* error report that holds the description of the failure
FailureOutsideWalkIsReported ==
    /\ HistNonceFail => Reported(hist', "getTransactionCount failed")
    /\ HistHeadFail => Reported(hist', "getBlockNumber failed")
    /\ StatsHeadFail => Reported(stats', "getBlockNumber failed")
    /\ StatsChainIdFail => Reported(stats', "getChainId failed")
    /\ StatsGasPriceFail => Reported(stats', "getGasPrice failed")
    /\ ToolRequestFail =>
          /\ tool'.error \in Messages
          /\ Reported(tool', tool'.error)
          /\ tool'.answered = tool.answered

\* a failed request inside a per-block try block is logged and the call goes on
FailureInsideWalkIsLogged ==
    /\ (HistBlockFail \/ HistReceiptFail) =>
          /\ hist'.logged[1] = hist.currentBlock
          /\ hist'.logged[2] \in {"getBlock failed", "getTransactionReceipt failed"}
          /\ hist'.result.kind # "error"
    /\ (StatsBlockInfoFail \/ StatsBlockTxsFail) =>
          /\ stats'.logged = stats.logged + 1
          /\ stats'.result.kind # "error"

\* no step leaves a handler with anything but its return value
NothingEscapes ==
    /\ {stake'.result.kind, hist'.result.kind, stats'.result.kind, tool'.result.kind}
          \subseteq ResultKinds
    /\ \A call \in {stake', hist', stats', tool'} :
          call.result.kind = "error" => call.pc = "done" /\ Len(call.result.text) >= 1

\* C11, amended: a failed request to the chain that is not a block or
\* receipt fetch inside one of the two walks ends the call with an error
\* report whose text holds the description of the failure; a failed block or
\* receipt fetch inside a walk is logged and skipped; no failure leaves a
\* handler other than as its return value.
C11_ReadFailureOutsideWalkIsReported ==
    [][FailureOutsideWalkIsReported /\ FailureInsideWalkIsLogged /\ NothingEscapes]_vars

C11_Witness ==
    /\ tool.name = "transaction-details"
    /\ tool.answered = <<"getTransaction">>
    /\ tool.error = "execution reverted"
    /\ Reported(tool, "execution reverted")
    /\ tool.result.text[1] = "Failed to retrieve transaction details for hash"

\* a call is in flight: it awaits a request
InFlight(call) == call.pc \notin {"idle", "done"}

\* the server handles one call at a time: the call in flight, and its return
AnyInFlight == InFlight(stake) \/ InFlight(hist) \/ InFlight(stats) \/ InFlight(tool)
Returned ==
    /\ ~AnyInFlight
    /\ "done" \in {stake.pc, hist.pc, stats.pc, tool.pc}

\* a call has returned exactly when it has a result, which is of one kind
OneResult(call) ==
    /\ call.pc = "done" <=> call.result # NoResult
    /\ call.result.kind \in ResultKinds
    /\ call.pc = "done" => call.result.kind \in {"success", "error"}

\* an error report holds the text of a catch block or of a validation, and
\* no transaction hash
ErrorIsOnlyError ==
    /\ tool.result.kind = "error" =>
          /\ tool.hash = ""
          /\ "hash" \notin Range(tool.result.text)
          /\ tool.result.text[1] \in {CatchText(tool.name), "Error parsing inputs:"}
    /\ tool.result.kind = "success" =>
          /\ tool.error = ""
          /\ tool.result.text[1] = SuccessText(tool.name)
          /\ tool.name \in Mutating <=> tool.hash # ""
    /\ stake.result.kind = "error" => "hash" \notin Range(stake.result.text)
    /\ hist.result.kind = "error" =>
          hist.result.text[1] = "Error fetching transaction history"
    /\ stats.result.kind = "error" =>
          stats.result.text[1] = "Error fetching chain statistics"

\* a result is returned once, and a transaction hash obtained is reported
ReturnsOnce ==
    /\ stake.result # NoResult => stake'.result = stake.result
    /\ hist.result # NoResult => hist'.result = hist.result
    /\ stats.result # NoResult => stats'.result = stats.result
    /\ tool.result # NoResult => tool'.result = tool.result
    /\ SendTransactionOk => stake'.result.kind = "success"
    /\ (ToolRequestOk /\ tool.pc = "sendTransaction") => tool'.result.kind = "success"

\* C12: a call whose requests are all answered or fail in the end returns,
\* and returns exactly one result: a success text or an error text, never
\* both and never none; an error report holds no success content, and a
\* mutating tool returns one only when it obtained no transaction hash.
C12_ExactlyOneResult ==
    /\ [](OneResult(stake) /\ OneResult(hist) /\ OneResult(stats) /\ OneResult(tool))
    /\ []ErrorIsOnlyError
    /\ [][ReturnsOnce]_vars
    /\ AnyInFlight ~> Returned

C12_Witness ==
    /\ tool.pc = "done"
    /\ tool.name = "swap-mon"
    /\ tool.answered = <<>>
    /\ tool.remaining = <<"sendTransaction">>
    /\ tool.error = "HTTP request failed"
    /\ tool.hash = ""
    /\ tool.result = Failure(<<"Swap failed:", "HTTP request failed">>)

-----------------------------------------------------------------------------
(* Properties of the records of account-transaction-history *)

\* the place of a transaction in the list of block n: its first listing
PlaceIn(n, hash) == Min({k \in DOMAIN chain.blocks[n] : chain.blocks[n][k].hash = hash})

\* record a was found before record b: in a newer block, or earlier in the
\* same block
FoundBefore(a, b) ==
    \/ a.blockNumber > b.blockNumber
    \/ /\ a.blockNumber = b.blockNumber
       /\ PlaceIn(a.blockNumber, a.hash) < PlaceIn(b.blockNumber, b.hash)

\* C14: the records are in found order, whatever block or receipt fetch
\* fails: of two records the one from the newer block comes first, and two
\* records of one block come in the order of that block's transaction list.
C14_FoundOrder ==
    /\ \A a, b \in DOMAIN hist.transactions :
          a < b => FoundBefore(hist.transactions[a], hist.transactions[b])
    /\ \A a \in DOMAIN hist.transactions :
          /\ BlockExists(chain, hist.transactions[a].blockNumber)
          /\ \E k \in DOMAIN chain.blocks[hist.transactions[a].blockNumber] :
                chain.blocks[hist.transactions[a].blockNumber][k].hash
                   = hist.transactions[a].hash
    /\ hist.result.kind = "success" => hist.result.text.transactions = hist.transactions

C14_Witness ==
    /\ hist.pc = "done"
    /\ hist.result.kind = "success"
    /\ hist.logged # <<>>
    /\ Len(hist.result.text.transactions) = 4
    /\ hist.result.text.transactions[1].blockNumber = hist.result.text.transactions[2].blockNumber
    /\ hist.result.text.transactions[1].hash # hist.result.text.transactions[2].hash
    /\ hist.result.text.transactions[3].blockNumber < hist.logged[1]
    /\ hist.logged[1] < hist.result.text.transactions[2].blockNumber

\* the blocks a walk without failures consults, newest first
Window(c) == [j \in 1..Min({blocksToSearch, c.head + 1}) |-> c.head - (j - 1)]

\* the transactions of those blocks in walk order, each with its block and
\* its place in it
Listed(c) ==
    Flatten([j \in DOMAIN Window(c) |->
                [k \in DOMAIN c.blocks[Window(c)[j]] |->
                    [tx |-> c.blocks[Window(c)[j]][k], blockNumber |-> Window(c)[j],
                     place |-> k]]])

\* the sender or the recipient, if there is one, is the address, whatever
\* the case of the letters
Touches(tx, address) ==
    \/ toLowerCase(tx.from) = toLowerCase(address)
    \/ tx.to # Null /\ toLowerCase(tx.to) = toLowerCase(address)

\* the transactions among them that touch the address, each once: at its
\* first listing in the newest block that lists it
Matching(c, address) ==
    LET First(e) ==
            /\ Touches(e.tx, address)
            /\ e.place = Min({k \in DOMAIN c.blocks[e.blockNumber] :
                                 c.blocks[e.blockNumber][k].hash = e.tx.hash})
            /\ \A n \in (e.blockNumber + 1)..c.head :
                  \A k \in DOMAIN c.blocks[n] : c.blocks[n][k].hash # e.tx.hash
        found == SelectSeq(Listed(c), First)
    IN [i \in DOMAIN found |->
           [hash |-> found[i].tx.hash, blockNumber |-> found[i].blockNumber,
            from |-> found[i].tx.from, to |-> found[i].tx.to,
            status |-> found[i].tx.status]]

-----------------------------------------------------------------------------
(* Properties of calls in flight together *)

\* a step runs the code of one call: the locals of the other are left alone
OneCallSteps ==
    \A id \in Slots :
       pool'[id] # pool[id] => \A other \in Slots \ {id} : pool'[other] = pool[other]

\* every call has the locals, and once it has returned the result, that it
\* has when it runs by itself and its requests are answered the same
SameAsAlone == \A id \in Slots : pool[id].locals = alone[id]

=============================================================================
